---- MODULE Spec2Model ----
(***************************************************************************)
(* Conway's Game of Life on a toroidal grid (src/src/lib.rs).              *)
(*                                                                         *)
(* The model follows Universe::new, get_index, alive_neighbour_count,      *)
(* cell_transform, tick and generate_universe.  A cell sequence is a TLA+  *)
(* sequence of 0/1 values; the Rust index idx is position idx + 1.         *)
(* Three specifications: Spec (Universe::new called directly, then tick),  *)
(* SpecGen (generate_universe, then tick) and SpecUnit (single calls of    *)
(* cell_transform and of the u32 operations on chosen arguments).  The     *)
(* grid values of Spec and SpecGen stay far below 2^31, so the u32         *)
(* operations there are exact; SpecUnit keeps the u32 width.               *)
(***************************************************************************)
EXTENDS Integers, Sequences, FiniteSets

\* ---------------------------------------------------------------- bounds
\* Largest width / height handed to Universe::new by a direct caller.
MaxDim == 4
\* Largest number of cells (width * height) a direct caller asks for.
MaxCells == 16
\* Largest number of Alive cells a direct caller's list produces, and largest
\* number of draws below the threshold in generate_universe.
MaxAlive == 4
\* Largest width / height handed to generate_universe.
MaxGenDim == 3
\* Number of tick calls followed after construction.
MaxTicks == 2

\* ------------------------------------------------------------ enum Cell
Dead == 0
Alive == 1

\* Outcomes of `rng.gen::<u8>()` that matter to `random_number < 32`.
RandomBytes == {0, 31, 32, 255}

VARIABLES
    pc,           \* "start", "gen", "new", "idle", "panicked"
    caller,       \* "none", "direct", "generate_universe"
    width,        \* parameter `width` of the running call
    height,       \* parameter `height` of the running call
    row,          \* generate_universe: loop variable `row`
    column,       \* generate_universe: loop variable `column`
    alive_cells,  \* generate_universe: init_alive_cells, then the part of
                  \* new's argument not yet consumed
    cells,        \* Universe::new: local `cells`
    universe,     \* the Universe returned by new, then mutated by tick
    listed_bad,   \* history of the running call to new: width = 0,
                  \* height = 0 or some coordinate consumed so far had
                  \* row >= height or column >= width
    init_cells,   \* history: universe.cells as returned by new
    prev_cells,   \* history: universe.cells before the latest tick
    ticks,        \* history: number of tick calls so far
    unit          \* SpecUnit: arguments and result of the single call

vars == << pc, caller, width, height, row, column, alive_cells, cells,
           universe, listed_bad, init_cells, prev_cells, ticks, unit >>

NoUniverse == [width |-> 0, height |-> 0, cells |-> << >>, built |-> FALSE]

\* ------------------------------------------------------- pure functions
\* vec![Cell::Dead; n]
DeadCells(n) == [i \in 1..n |-> Dead]

\* Universe::get_index
get_index(w, r, c) == r * w + c

\* self.cells[idx]; only used where idx is in bounds
CellAt(cs, idx) == cs[idx + 1]

\* One pass of the inner loop body of alive_neighbour_count: what it adds to
\* alive_count for (row_iter, column_iter).
NeighbourTerm(w, h, cs, r, c, row_iter, column_iter) ==
    IF row_iter = 0 /\ column_iter = 0
    THEN 0
    ELSE LET neighbour_row == (r + row_iter) % h
             neighbour_column == (c + column_iter) % w
             idx == get_index(w, neighbour_row, neighbour_column)
         IN  CellAt(cs, idx)

\* The inner loop of alive_neighbour_count for one row_iter, unrolled:
\* column_iter takes the values of [self.width - 1, 0, 1] in order.
SumColumnIters(w, h, cs, r, c, row_iter) ==
    NeighbourTerm(w, h, cs, r, c, row_iter, w - 1)
    + NeighbourTerm(w, h, cs, r, c, row_iter, 0)
    + NeighbourTerm(w, h, cs, r, c, row_iter, 1)

\* The outer loop of alive_neighbour_count, unrolled: row_iter takes the
\* values of [self.height - 1, 0, 1] in order.
SumRowIters(w, h, cs, r, c) ==
    SumColumnIters(w, h, cs, r, c, h - 1)
    + SumColumnIters(w, h, cs, r, c, 0)
    + SumColumnIters(w, h, cs, r, c, 1)

\* Variant with bounded edges: a neighbour beyond an edge is not counted
\* (no wraparound).
alive_neighbour_count_bounded(w, h, cs, r, c) ==
    Cardinality({ d \in {-1, 0, 1} \X {-1, 0, 1} :
        /\ d # << 0, 0 >>
        /\ r + d[1] >= 0 /\ r + d[1] < h
        /\ c + d[2] >= 0 /\ c + d[2] < w
        /\ CellAt(cs, get_index(w, r + d[1], c + d[2])) = Alive })

\* Universe::alive_neighbour_count
alive_neighbour_count(w, h, cs, r, c) == SumRowIters(w, h, cs, r, c)

\* Variant without the under-population arm (`x < 2` dropped).
cell_transform_no_underpopulation(current_cell, count) ==
    IF current_cell = Alive /\ count > 3 THEN Dead
    ELSE IF current_cell = Alive THEN Alive
    ELSE IF count = 3 THEN Alive
    ELSE Dead

\* Variant whose over-population arm is `x > 2`.
cell_transform_overpopulation_at_3(current_cell, count) ==
    IF current_cell = Alive /\ (count < 2 \/ count > 2) THEN Dead
    ELSE IF current_cell = Alive THEN Alive
    ELSE IF count = 3 THEN Alive
    ELSE Dead

\* Variant whose birth arm is `(Cell::Dead, 2)`.
cell_transform_birth_at_2(current_cell, count) ==
    IF current_cell = Alive /\ (count < 2 \/ count > 3) THEN Dead
    ELSE IF current_cell = Alive THEN Alive
    ELSE IF count = 2 THEN Alive
    ELSE Dead

\* Universe::cell_transform
cell_transform(current_cell, count) ==
    IF current_cell = Alive /\ (count < 2 \/ count > 3) THEN Dead
    ELSE IF current_cell = Alive THEN Alive
    ELSE IF count = 3 THEN Alive
    ELSE Dead

\* Variant that updates in place: the cell and its neighbours are read
\* from the buffer being written.
TickCellInPlace(w, h, cur, new, r, c) ==
    LET idx == get_index(w, r, c)
        current_cell == CellAt(new, idx)
        count == alive_neighbour_count(w, h, new, r, c)
    IN  [new EXCEPT ![idx + 1] = cell_transform(current_cell, count)]

\* Body of tick's inner loop for (r, c): reads self.cells (cur), writes
\* new_cells (new).
TickCell(w, h, cur, new, r, c) ==
    LET idx == get_index(w, r, c)
        current_cell == CellAt(cur, idx)
        count == alive_neighbour_count(w, h, cur, r, c)
    IN  [new EXCEPT ![idx + 1] = cell_transform(current_cell, count)]

RECURSIVE TickColumns(_, _, _, _, _, _)
TickColumns(w, h, cur, new, r, c) ==
    IF c >= w THEN new
    ELSE TickColumns(w, h, cur, TickCell(w, h, cur, new, r, c), r, c + 1)

RECURSIVE TickRows(_, _, _, _, _)
TickRows(w, h, cur, new, r) ==
    IF r >= h THEN new
    ELSE TickRows(w, h, cur, TickColumns(w, h, cur, new, r, 0), r + 1)

\* The cell sequence tick assigns to self.cells.
TickResult(u) == TickRows(u.width, u.height, u.cells, u.cells, 0)

\* ------------------------------------------------------- u32 arithmetic
\* A u32 is a sequence of 4 base-256 digits, least significant first, so
\* that values up to 2^32 - 1 and exact results beyond them can be written.
\* hi and lo are the two 16-bit halves of the value.
U32(hi, lo) == << lo % 256, lo \div 256, hi % 256, hi \div 256 >>

\* Digit i of a, 0 beyond its length.
DigitAt(a, i) == IF i <= Len(a) THEN a[i] ELSE 0

\* Carry into digit i of the exact sum a + b.
RECURSIVE AddCarry(_, _, _)
AddCarry(a, b, i) ==
    IF i = 1 THEN 0
    ELSE (DigitAt(a, i - 1) + DigitAt(b, i - 1) + AddCarry(a, b, i - 1))
         \div 256

\* The exact sum a + b of two u32, 5 digits.
ExactAdd(a, b) ==
    [i \in 1..5 |-> (DigitAt(a, i) + DigitAt(b, i) + AddCarry(a, b, i)) % 256]

\* Column k of the schoolbook product a * b, before carries.
MulColumn(a, b, k) ==
    LET Term(i) == IF k + 1 - i >= 1 /\ k + 1 - i <= 4
                   THEN a[i] * b[k + 1 - i] ELSE 0
    IN  Term(1) + Term(2) + Term(3) + Term(4)

\* Carry into digit k of the exact product a * b.
RECURSIVE MulCarry(_, _, _)
MulCarry(a, b, k) ==
    IF k = 1 THEN 0
    ELSE (MulColumn(a, b, k - 1) + MulCarry(a, b, k - 1)) \div 256

\* The exact product a * b of two u32, 8 digits.
ExactMul(a, b) ==
    [k \in 1..8 |-> (MulColumn(a, b, k) + MulCarry(a, b, k)) % 256]

\* a - 1 for a u32 a >= 1.
U32Pred(a) ==
    [i \in 1..4 |-> IF \A j \in 1..(i - 1) : a[j] = 0
                    THEN (a[i] + 255) % 256 ELSE a[i]]

\* a < b for two u32.
U32Less(a, b) ==
    \E i \in 1..4 : a[i] < b[i] /\ \A j \in (i + 1)..4 : a[j] = b[j]

\* An exact result is representable in u32.
FitsU32(x) == \A i \in 5..Len(x) : x[i] = 0

\* The u32 a wrapping operation leaves: the low 4 digits.
WrapU32(x) == [i \in 1..4 |-> x[i]]

\* `width * height` of Universe::new
NewLenExact(w, h) == ExactMul(w, h)

\* `row * self.width` and `+ column` of get_index, both exact; the sum is
\* taken on the product the u32 multiplication left.
GetIndexProduct(w, r) == ExactMul(r, w)
GetIndexSum(w, r, c) == ExactAdd(WrapU32(GetIndexProduct(w, r)), c)

\* [self.height - 1, 0, 1] and [self.width - 1, 0, 1] as u32
U32RowIters(h) == << U32Pred(h), U32(0, 0), U32(0, 1) >>
U32ColumnIters(w) == << U32Pred(w), U32(0, 0), U32(0, 1) >>

\* `row + row_iter` and `column + column_iter`, exact
NeighbourRowExact(r, row_iter) == ExactAdd(r, row_iter)
NeighbourColumnExact(c, column_iter) == ExactAdd(c, column_iter)

AliveTotal(cs) == Cardinality({i \in 1..Len(cs) : cs[i] = Alive})

\* ----------------------------------------------------------------- Init
UnitIdle == [op |-> "none", kind |-> "none"]

Init ==
    /\ pc = "start"
    /\ caller = "none"
    /\ width = 0
    /\ height = 0
    /\ row = 0
    /\ column = 0
    /\ alive_cells = << >>
    /\ cells = << >>
    /\ universe = NoUniverse
    /\ listed_bad = FALSE
    /\ init_cells = << >>
    /\ prev_cells = << >>
    /\ ticks = 0
    /\ unit = UnitIdle

\* -------------------------------------------------------------- actions
\* Entry of Universe::new(w, h, _): the allocation of `cells`.
NewEnter(w, h) ==
    /\ pc' = "new"
    /\ width' = w
    /\ height' = h
    /\ cells' = DeadCells(w * h)
    /\ listed_bad' = (w = 0 \/ h = 0)

\* A direct caller (the crate's tests) calls Universe::new(w, h, list).  The
\* list is revealed one element at a time as new's loop consumes it; its
\* rows go up to height and its columns up to width, one beyond the grid.
CallNew ==
    /\ pc = "start"
    /\ \E w \in 0..MaxDim, h \in 0..MaxDim :
          /\ w * h <= MaxCells
          /\ NewEnter(w, h)
    /\ caller' = "direct"
    /\ UNCHANGED << row, column, alive_cells, universe, init_cells,
                    prev_cells, ticks, unit >>

\* One pass of new's loop for the element (r, c).
NewMark(r, c) ==
    LET idx == get_index(width, r, c)
    IN  /\ listed_bad' = (listed_bad \/ r >= height \/ c >= width)
        /\ IF idx < Len(cells)
           THEN /\ cells' = [cells EXCEPT ![idx + 1] = Alive]
                /\ pc' = "new"
           ELSE /\ cells' = cells
                /\ pc' = "panicked"

NewLoopDirect ==
    /\ pc = "new"
    /\ caller = "direct"
    /\ \E r \in 0..height, c \in 0..width :
          /\ NewMark(r, c)
          /\ AliveTotal(cells') <= MaxAlive
    /\ UNCHANGED << caller, width, height, row, column, alive_cells,
                    universe, init_cells, prev_cells, ticks, unit >>

NewLoopGenerated ==
    /\ pc = "new"
    /\ caller = "generate_universe"
    /\ alive_cells # << >>
    /\ NewMark(Head(alive_cells)[1], Head(alive_cells)[2])
    /\ alive_cells' = Tail(alive_cells)
    /\ UNCHANGED << caller, width, height, row, column,
                    universe, init_cells, prev_cells, ticks, unit >>

\* Variant that builds Universe { width: height, height: width, cells }.
NewReturnSwapped ==
    /\ pc = "new"
    /\ caller = "generate_universe" => alive_cells = << >>
    /\ pc' = "idle"
    /\ universe' = [width |-> height, height |-> width, cells |-> cells,
                    built |-> TRUE]
    /\ init_cells' = cells
    /\ listed_bad' = FALSE
    /\ UNCHANGED << caller, width, height, row, column, alive_cells, cells,
                    prev_cells, ticks, unit >>

\* new's loop is over: Universe { width, height, cells } is returned.
NewReturn ==
    /\ pc = "new"
    /\ caller = "generate_universe" => alive_cells = << >>
    /\ pc' = "idle"
    /\ universe' = [width |-> width, height |-> height, cells |-> cells,
                    built |-> TRUE]
    /\ init_cells' = cells
    /\ listed_bad' = FALSE
    /\ UNCHANGED << caller, width, height, row, column, alive_cells, cells,
                    prev_cells, ticks, unit >>

\* Universe::tick
Tick ==
    /\ pc = "idle"
    /\ ticks < MaxTicks
    /\ universe' = [universe EXCEPT !.cells = TickResult(universe)]
    /\ prev_cells' = universe.cells
    /\ ticks' = ticks + 1
    /\ UNCHANGED << pc, caller, width, height, row, column, alive_cells,
                    cells, listed_bad, init_cells, unit >>

\* generate_universe(w, h): entry
GenStart ==
    /\ pc = "start"
    /\ \E w \in 0..MaxGenDim, h \in 0..MaxGenDim :
          /\ width' = w
          /\ height' = h
    /\ pc' = "gen"
    /\ caller' = "generate_universe"
    /\ row' = 0
    /\ column' = 0
    /\ alive_cells' = << >>
    /\ UNCHANGED << cells, universe, listed_bad, init_cells, prev_cells,
                    ticks, unit >>

\* generate_universe's loops have a pass left at (row, column).
GenInLoop == row < width /\ column < height

\* One pass of generate_universe's inner loop.
GenDraw ==
    /\ pc = "gen"
    /\ GenInLoop
    /\ \E random_number \in RandomBytes :
          IF random_number < 32
          THEN /\ Len(alive_cells) < MaxAlive
               /\ alive_cells' = Append(alive_cells, << row, column >>)
          ELSE alive_cells' = alive_cells
    /\ IF column + 1 < height
       THEN /\ column' = column + 1
            /\ row' = row
       ELSE /\ column' = 0
            /\ row' = row + 1
    /\ UNCHANGED << pc, caller, width, height, cells, universe, listed_bad,
                    init_cells, prev_cells, ticks, unit >>

\* generate_universe's loops are over: Universe::new(width, height,
\* init_alive_cells) is called.
GenCallNew ==
    /\ pc = "gen"
    /\ ~GenInLoop
    /\ NewEnter(width, height)
    /\ UNCHANGED << caller, row, column, alive_cells, universe, init_cells,
                    prev_cells, ticks, unit >>

\* Universe::new called directly, then any number of ticks.
Next ==
    \/ CallNew
    \/ NewLoopDirect
    \/ NewReturn
    \/ Tick

Spec == Init /\ [][Next]_vars

\* generate_universe, then any number of ticks.
NextGen ==
    \/ GenStart
    \/ GenDraw
    \/ GenCallNew
    \/ NewLoopGenerated
    \/ NewReturn
    \/ Tick

SpecGen == Init /\ [][NextGen]_vars

\* ------------------------------------------- runs on chosen arguments
\* Widths and heights around the places where u32 arithmetic changes.
DimValues ==
    { U32(0, 1), U32(0, 2), U32(0, 3), U32(0, 65535), U32(1, 0), U32(1, 1),
      U32(32767, 65535), U32(32768, 0), U32(32768, 1), U32(65535, 65535) }

\* In-range rows (columns) of a grid with n rows (columns): first, second, last.
Positions(n) == {p \in {U32(0, 0), U32(0, 1), U32Pred(n)} : U32Less(p, n)}

NoArgs == [width |-> U32(0, 1), height |-> U32(0, 1),
           row |-> U32(0, 0), column |-> U32(0, 0)]
NoResult == [exact |-> << >>, overflow |-> FALSE, outcome |-> "none",
             cell |-> Dead]

\* Arguments for cell_transform: both cells, every u8 count.
RuleInputs ==
    { [op |-> "input", kind |-> "rule", cell |-> cl, count |-> n,
       args |-> NoArgs, result |-> NoResult] :
      cl \in {Dead, Alive}, n \in 0..255 }

\* Arguments for the u32 operations: a width, a height, an in-range row and
\* an in-range column.
ArithInputs ==
    UNION { UNION { { [op |-> "input", kind |-> "arith", cell |-> Dead,
                       count |-> 0,
                       args |-> [width |-> w, height |-> h,
                                 row |-> r, column |-> c],
                       result |-> NoResult] :
                      r \in Positions(h), c \in Positions(w) } :
                    h \in DimValues } :
            w \in DimValues }

InitUnit ==
    /\ pc = "start"
    /\ caller = "none"
    /\ width = 0
    /\ height = 0
    /\ row = 0
    /\ column = 0
    /\ alive_cells = << >>
    /\ cells = << >>
    /\ universe = NoUniverse
    /\ listed_bad = FALSE
    /\ init_cells = << >>
    /\ prev_cells = << >>
    /\ ticks = 0
    /\ unit \in RuleInputs \cup ArithInputs

MainVars == << pc, caller, width, height, row, column, alive_cells, cells,
               universe, listed_bad, init_cells, prev_cells, ticks >>

\* What a u32 operation with exact result x leaves: the value when it fits;
\* otherwise a panic (overflow checks on) or the wrapped value (checks off).
U32Outcomes(x) ==
    IF FitsU32(x)
    THEN { [exact |-> x, overflow |-> FALSE, outcome |-> "value",
            cell |-> Dead] }
    ELSE { [exact |-> x, overflow |-> TRUE, outcome |-> o, cell |-> Dead] :
           o \in {"panicked", "wrapped"} }

\* cell_transform(current_cell, alive_neighbour_count) is called.
UnitCellTransform ==
    /\ unit.op = "input" /\ unit.kind = "rule"
    /\ unit' = [unit EXCEPT
                  !.op = "cell_transform",
                  !.result = [NoResult EXCEPT
                      !.outcome = "value",
                      !.cell = cell_transform(unit.cell, unit.count)]]
    /\ UNCHANGED MainVars

\* Universe::new evaluates width * height.
UnitNewLen ==
    /\ unit.op = "input" /\ unit.kind = "arith"
    /\ \E res \in U32Outcomes(NewLenExact(unit.args.width, unit.args.height)) :
          unit' = [unit EXCEPT !.op = "new_len", !.result = res]
    /\ UNCHANGED MainVars

\* get_index evaluates row * self.width.
UnitGetIndexProduct ==
    /\ unit.op = "input" /\ unit.kind = "arith"
    /\ \E res \in U32Outcomes(GetIndexProduct(unit.args.width, unit.args.row)) :
          unit' = [unit EXCEPT !.op = "get_index_product", !.result = res]
    /\ UNCHANGED MainVars

\* get_index evaluates (row * self.width) + column.
UnitGetIndexSum ==
    /\ unit.op = "get_index_product"
    /\ unit.result.outcome # "panicked"
    /\ \E res \in U32Outcomes(GetIndexSum(unit.args.width, unit.args.row,
                                         unit.args.column)) :
          unit' = [unit EXCEPT !.op = "get_index_sum", !.result = res]
    /\ UNCHANGED MainVars

\* alive_neighbour_count evaluates row + row_iter.
UnitNeighbourRow ==
    /\ unit.op = "input" /\ unit.kind = "arith"
    /\ \E i \in 1..3 :
          \E res \in U32Outcomes(NeighbourRowExact(unit.args.row,
                                     U32RowIters(unit.args.height)[i])) :
             unit' = [unit EXCEPT !.op = "neighbour_row", !.result = res]
    /\ UNCHANGED MainVars

\* alive_neighbour_count evaluates column + column_iter.
UnitNeighbourColumn ==
    /\ unit.op = "input" /\ unit.kind = "arith"
    /\ \E j \in 1..3 :
          \E res \in U32Outcomes(NeighbourColumnExact(unit.args.column,
                                     U32ColumnIters(unit.args.width)[j])) :
             unit' = [unit EXCEPT !.op = "neighbour_column", !.result = res]
    /\ UNCHANGED MainVars

NextUnit ==
    \/ UnitCellTransform
    \/ UnitNewLen
    \/ UnitGetIndexProduct
    \/ UnitGetIndexSum
    \/ UnitNeighbourRow
    \/ UnitNeighbourColumn

SpecUnit == InitUnit /\ [][NextUnit]_vars

\* ======================================================== properties
\* The universe exists, and has at least one row and one column.
Proper == universe.built /\ universe.width >= 1 /\ universe.height >= 1

Rows == 0..(universe.height - 1)
Columns == 0..(universe.width - 1)

\* The grid obtained by applying cell_transform to every cell of cs at once,
\* each with its neighbour count in cs.
SyncUpdate(w, h, cs) ==
    [i \in 1..Len(cs) |->
        cell_transform(cs[i],
            alive_neighbour_count(w, h, cs, (i - 1) \div w, (i - 1) % w))]

\* C1: tick is a synchronous update: after a tick every cell equals
\* cell_transform of its value before the tick and its neighbour count in
\* the grid as it was before the tick.
C1_TickIsSynchronous ==
    (Proper /\ ticks >= 1) =>
        universe.cells =
            SyncUpdate(universe.width, universe.height, prev_cells)

\* A tick has run on a grid where an in-place scan would have given
\* another result: cells changed, some survived.
C1_Witness ==
    /\ Proper /\ ticks >= 1
    /\ universe.cells # prev_cells
    /\ AliveTotal(universe.cells) >= 3
    /\ AliveTotal(prev_cells) >= 3

\* The sum the specification gives for the neighbour count: one term per
\* offset (dRow, dCol) other than (0, 0).
OffsetSum(w, h, cs, r, c) ==
    LET Offsets == ({-1, 0, 1} \X {-1, 0, 1}) \ {<< 0, 0 >>}
        Hit(d) == CellAt(cs, get_index(w, (r + d[1] + h) % h,
                                          (c + d[2] + w) % w)) = Alive
    IN  Cardinality({d \in Offsets : Hit(d)})

\* C2: alive_neighbour_count(row, col) is the sum over the 8 offsets of the
\* value of the wrapped neighbour, once per offset, for every width >= 1 and
\* height >= 1.
C2_CountIsOffsetSum ==
    Proper =>
        \A r \in Rows, c \in Columns :
            alive_neighbour_count(universe.width, universe.height,
                                  universe.cells, r, c)
            = OffsetSum(universe.width, universe.height, universe.cells, r, c)

\* C4: a universe new has returned has width * height cells and the width
\* and height given to new, before and after every tick.
C4_ShapeIsFixed ==
    universe.built =>
        /\ Len(universe.cells) = universe.width * universe.height
        /\ universe.width = width
        /\ universe.height = height
        /\ ticks >= 1 => Len(universe.cells) = Len(prev_cells)

\* A non-square universe has been ticked as often as the model follows it.
C4_Witness ==
    /\ universe.built
    /\ ticks = MaxTicks
    /\ universe.width # universe.height
    /\ AliveTotal(universe.cells) >= 1

\* C5: new with width = 0, height = 0 or a listed coordinate out of range
\* never returns a grid.
C5_InvalidNeverReturns ==
    [][(pc = "new" /\ listed_bad) => pc' # "idle"]_vars

\* The Alive cells of cs are exactly the 2x2 block whose top-left cell is
\* (r, c), on the torus.
IsBlockAt(w, h, cs, r, c) ==
    LET block == { get_index(w, r, c),
                   get_index(w, r, (c + 1) % w),
                   get_index(w, (r + 1) % h, c),
                   get_index(w, (r + 1) % h, (c + 1) % w) }
    IN  /\ Len(cs) = w * h
        /\ \A i \in 0..(w * h - 1) : (CellAt(cs, i) = Alive) <=> (i \in block)

IsBlock(w, h, cs) ==
    \E r \in 0..(h - 1), c \in 0..(w - 1) : IsBlockAt(w, h, cs, r, c)

\* C6 as stated: on every grid with width >= 2 and height >= 2 that starts
\* as one 2x2 block, the cells stay as they started.
C6_BlockStillFrom2 ==
    (universe.built /\ universe.width >= 2 /\ universe.height >= 2
        /\ IsBlock(universe.width, universe.height, init_cells))
    => universe.cells = init_cells

\* C6: on every grid with width >= 3 and height >= 3 that starts as one 2x2
\* block, the cells stay as they started, after any number of ticks.
C6_BlockStillFrom3 ==
    (universe.built /\ universe.width >= 3 /\ universe.height >= 3
        /\ IsBlock(universe.width, universe.height, init_cells))
    => universe.cells = init_cells

\* A block on a grid of at least 3x3, one dimension larger than the other,
\* has been ticked as often as the model follows it.
C6_Witness ==
    /\ universe.built /\ universe.width >= 3 /\ universe.height >= 3
    /\ universe.width # universe.height
    /\ IsBlock(universe.width, universe.height, init_cells)
    /\ ticks = MaxTicks

\* C7: when exactly one cell is Alive before a tick, that cell is Dead after
\* it, for every width >= 1 and height >= 1.
C7_LoneCellDies ==
    (Proper /\ ticks >= 1 /\ AliveTotal(prev_cells) = 1) =>
        \A i \in 1..Len(prev_cells) :
            prev_cells[i] = Alive => universe.cells[i] = Dead

\* A lone cell on a one-column grid (it is its own neighbour) was ticked.
C7_Witness ==
    /\ Proper /\ ticks >= 1 /\ AliveTotal(prev_cells) = 1
    /\ universe.width = 1 /\ universe.height >= 2

\* The 4x4 grid whose only Alive cells are (0, 2) and (2, 2).
RowAliveGrid ==
    [i \in 1..16 |-> IF i - 1 \in {get_index(4, 0, 2), get_index(4, 2, 2)}
                     THEN Alive ELSE Dead]

IsRowAliveUniverse ==
    /\ universe.built /\ universe.width = 4 /\ universe.height = 4
    /\ universe.cells = RowAliveGrid

\* C8 as stated: on that grid alive_neighbour_count(row 3, col 2) is 1.
C8_Count32Is1 ==
    IsRowAliveUniverse =>
        alive_neighbour_count(4, 4, universe.cells, 3, 2) = 1

\* C8: on that grid alive_neighbour_count(row 3, col 2) is 2: (2, 2) is the
\* cell above and (0, 2) is the cell below, by wraparound.
C8_Count32Is2 ==
    IsRowAliveUniverse =>
        alive_neighbour_count(4, 4, universe.cells, 3, 2) = 2

C8_Witness == IsRowAliveUniverse /\ ticks = 0

\* C9: for width >= 1 and height >= 1 every coordinate generate_universe
\* hands to new has row < height and col < width, and nothing indexes
\* outside the cell sequence.
C9_GeneratedInRange ==
    (caller = "generate_universe" /\ width >= 1 /\ height >= 1) =>
        /\ \A i \in 1..Len(alive_cells) :
              alive_cells[i][1] < height /\ alive_cells[i][2] < width
        /\ pc # "panicked"

\* C3: for both cells and every count in 0..8, cell_transform gives Alive
\* exactly for (Alive, 2), (Alive, 3) and (Dead, 3), and Dead otherwise.
C3_RuleTable ==
    (unit.op = "cell_transform" /\ unit.count \in 0..8) =>
        /\ unit.result.cell \in {Dead, Alive}
        /\ (unit.result.cell = Alive) <=>
              \/ unit.cell = Alive /\ unit.count \in {2, 3}
              \/ unit.cell = Dead /\ unit.count = 3

\* cell_transform was applied to a Dead cell with 3 Alive neighbours.
C3_Witness ==
    /\ unit.op = "cell_transform"
    /\ unit.cell = Dead /\ unit.count = 3
    /\ unit.result.cell = Alive

\* The arguments of a run meet C10's conditions: width * height fits u32.
\* (width, height >= 1 and the row and column are in range by the choice of
\* the arguments.)
ArithArgsValid ==
    /\ unit.kind = "arith"
    /\ FitsU32(NewLenExact(unit.args.width, unit.args.height))
    /\ U32Less(unit.args.row, unit.args.height)
    /\ U32Less(unit.args.column, unit.args.width)

\* C10: when width * height fits u32 and (row, col) is in range, none of
\* width * height, row * width + column, row + row_iter and
\* column + column_iter exceeds 2^32 - 1.
C10_NoOverflow ==
    (ArithArgsValid /\ unit.op # "input") => ~unit.result.overflow

====
